---- MODULE Spec2Model ----
\* Model of the uniform grid class of src/learner/Grid.cpp: configuration
\* (setDim, setN, setMin, setMax), rasterize, and the index, coordinate,
\* neighbourhood and enveloping-node queries, with the scratch buffers _idx and
\* _x the queries share.
EXTENDS Integers, Sequences, FiniteSets, TLC

\* ---------------------------------------------------------------------------
\* Bounds of the model
\* ---------------------------------------------------------------------------
MaxN == 3
MaxRadius == 1
MaxOps == 5
MaxQueries == 1

\* ---------------------------------------------------------------------------
\* 32-bit unsigned arithmetic (uint).  A uint value u is represented by the
\* integer with the same 32-bit pattern: u itself when u < 2^31, and u - 2^32
\* otherwise (so 4294967295 is -1).  Addition, subtraction and multiplication
\* are exact modulo 2^32 on this representation; comparison is unsigned.
\* ---------------------------------------------------------------------------
IntMax == 2147483647
IntMin == (-IntMax) - 1
UintMax == -1

UAdd(a, b) ==
    IF a >= 0 /\ b >= 0 /\ a > IntMax - b
      THEN (a - IntMax - 1) + (b - IntMax - 1)
      ELSE IF a < 0 /\ b < 0 /\ a < IntMin - b
             THEN (a + IntMax + 1) + (b + IntMax + 1)
             ELSE a + b

UNeg(a) == IF a = IntMin THEN IntMin ELSE -a

USub(a, b) == UAdd(a, UNeg(b))

RECURSIVE UMul(_, _)
UMul(a, b) ==
    IF b = 0 THEN 0
    ELSE IF b < 0 THEN UNeg(UMul(a, UNeg(b)))
    ELSE IF b % 2 = 1 THEN UAdd(a, UMul(UAdd(a, a), b \div 2))
    ELSE UMul(UAdd(a, a), b \div 2)

ULt(a, b) == IF (a < 0) = (b < 0) THEN a < b ELSE b < 0
ULe(a, b) == a = b \/ ULt(a, b)

\* qMin / qMax of Qt on uint: (a < b) ? a : b and (a < b) ? b : a.
UMin(a, b) == IF ULt(a, b) THEN a ELSE b
UMax(a, b) == IF ULt(a, b) THEN b ELSE a

\* qBound(min, val, max) of Qt on int: qMax(min, qMin(max, val)).
IMin(a, b) == IF a < b THEN a ELSE b
IMax(a, b) == IF a < b THEN b ELSE a
qBound(lo, val, hi) == IMax(lo, IMin(hi, val))

\* ---------------------------------------------------------------------------
\* double.  A value is the exact fraction n/d in lowest terms with d > 0;
\* d = 0 stands for the IEEE specials: 1/0 = +inf, -1/0 = -inf, 0/0 = NaN.
\* ---------------------------------------------------------------------------
Abs(i) == IF i < 0 THEN -i ELSE i
Sign(i) == IF i < 0 THEN -1 ELSE IF i > 0 THEN 1 ELSE 0

RECURSIVE GCD(_, _)
GCD(a, b) == IF b = 0 THEN a ELSE GCD(b, a % b)

Dbl(n, d) ==
    IF d = 0 THEN [n |-> Sign(n), d |-> 0]
    ELSE LET g == GCD(Abs(n), Abs(d))
             s == Sign(d)
         IN  [n |-> s * (n \div g), d |-> s * (d \div g)]

DInt(i) == [n |-> i, d |-> 1]
DZero == DInt(0)
DNaN == [n |-> 0, d |-> 0]

DFinite(a) == a.d > 0

DAdd(a, b) ==
    IF a.d = 0 \/ b.d = 0
      THEN IF a.d = 0 /\ b.d = 0
             THEN (IF a.n = b.n THEN a ELSE DNaN)
             ELSE (IF a.d = 0 THEN a ELSE b)
      ELSE Dbl(a.n * b.d + b.n * a.d, a.d * b.d)

DNegate(a) == [n |-> -a.n, d |-> a.d]
DSub(a, b) == DAdd(a, DNegate(b))
DMul(a, b) == Dbl(a.n * b.n, a.d * b.d)
\* The reciprocal of a zero is +inf: every zero divisor of the code is +0.
DRecip(b) == IF b.n < 0 THEN [n |-> -b.d, d |-> -b.n] ELSE Dbl(b.d, b.n)
DDiv(a, b) == DMul(a, DRecip(b))

DLt(a, b) ==
    IF a.d = 0 /\ b.d = 0 THEN a.n # 0 /\ b.n # 0 /\ a.n < b.n
    ELSE IF (a.d = 0 /\ a.n = 0) \/ (b.d = 0 /\ b.n = 0) THEN FALSE
    ELSE a.n * b.d < b.n * a.d
DLe(a, b) == DFinite(a) /\ DFinite(b) /\ ~DLt(b, a)

\* floor and truncation toward zero of a finite double.
DFloor(a) == a.n \div a.d
DTrunc(a) == Sign(a.n) * (Abs(a.n) \div a.d)

\* (int)v.  Converting an infinity or a NaN to int is undefined: the build
\* may produce any int, of which these are the ones a clamp can tell apart.
UBInts == {IntMin, IntMax} \cup (-1 .. MaxN)
IntCast(v) == IF DFinite(v) THEN {DTrunc(v)} ELSE UBInts

\* qRound(v) of Qt:
\*   v >= 0.0 ? int(v + 0.5) : int(v - double(int(v-1)) + 0.5) + int(v-1)
DHalf == Dbl(1, 2)
qRound(v) ==
    IF ~DFinite(v) THEN UBInts
    ELSE IF v.n >= 0 THEN {DTrunc(DAdd(v, DHalf))}
    ELSE LET t == DTrunc(DSub(v, DInt(1)))
         IN  {DTrunc(DAdd(DSub(v, DInt(t)), DHalf)) + t}

\* ---------------------------------------------------------------------------
\* State of a Grid object, and of its callers
\* ---------------------------------------------------------------------------
VARIABLES
    DIM,        \* number of dimensions
    N,          \* nodes per dimension (uint)
    min, max,   \* data range boundaries (double)
    nodeCount,  \* total number of nodes (uint)
    cumN,       \* index strides (uint)
    stride,     \* cell size per dimension (double)
    strideinv,  \* 1/stride (double)
    raster,     \* node coordinates per dimension
    _idx,       \* scratch dim index the queries write and return a pointer to
    _x,         \* scratch point the queries write and return a pointer to
    call,       \* the last operation called, with its arguments
    result,     \* what it returned
    fresh,      \* TRUE iff rasterize() ran and no setter was called since
    held,       \* what a caller retained from an earlier query
    thr,        \* the threads running a query step by step
    ops         \* number of operations the caller may still call

vars == <<DIM, N, min, max, nodeCount, cumN, stride, strideinv, raster,
          _idx, _x, call, result, fresh, held, thr, ops>>

config == <<DIM, N, min, max>>
derived == <<nodeCount, cumN, stride, strideinv, raster>>
scratch == <<_idx, _x>>

Dims == 1 .. DIM

\* Input values of the model.
DimVals == {1, 2}
NVals == {1, 2, 3}
MinVals == {DInt(0), DInt(1)}
MaxVals == {DInt(0), DInt(2)}
PointVals == {Dbl(k, 2) : k \in {-1, 1, 3, 4, 5}}
RadiusVals == (0 .. MaxRadius) \cup {UintMax}
\* What a read past the end of a raster table may yield.
GarbageVals == {DZero, DInt(-7)}

\* QVector::resize(d): keeps the first elements, appends default values.
Resize(v, d, dflt) == [i \in 1 .. d |-> IF i <= Len(v) THEN v[i] ELSE dflt]

\* ---------------------------------------------------------------------------
\* rasterize(): the derived fields computed from n, mn, mx of dim dimensions
\* ---------------------------------------------------------------------------
RECURSIVE ProdN(_, _)
ProdN(n, d) == IF d = 1 THEN n[1] ELSE UMul(ProdN(n, d - 1), n[d])

RasterNodeCount(n, dim) == ProdN(n, dim)

RECURSIVE CumNAt(_, _)
CumNAt(n, d) == IF d = 1 THEN 1 ELSE UMul(CumNAt(n, d - 1), n[d - 1])

\* Mutant of RasterCumN: the stride of dimension d multiplies in N[d], not
\* N[d-1].
RasterCumNSkewed(n, dim) ==
    [d \in 1 .. dim |-> IF d = 1 THEN 1 ELSE UMul(CumNAt(n, d - 1), n[d])]

RasterCumN(n, dim) == [d \in 1 .. dim |-> CumNAt(n, d)]

\* stride[d] = l/(N[d]-1), with N[d]-1 a uint converted to double (N[d] >= 1).
RasterStride(n, mn, mx, dim) ==
    [d \in 1 .. dim |-> DDiv(DSub(mx[d], mn[d]), DInt(USub(n[d], 1)))]

RasterStrideInv(n, mn, mx, dim) ==
    [d \in 1 .. dim |-> DDiv(DInt(1), RasterStride(n, mn, mx, dim)[d])]

RasterTable(n, mn, mx, dim) ==
    [d \in 1 .. dim |->
        [k \in 1 .. n[d] |->
            DAdd(mn[d], DMul(DInt(k - 1), RasterStride(n, mn, mx, dim)[d]))]]

\* ---------------------------------------------------------------------------
\* Queries, as functions of the grid's fields
\* ---------------------------------------------------------------------------
\* convertIndex(const uint* idx): dim index to flat index.
RECURSIVE FlatSum(_, _)
FlatSum(idx, d) ==
    IF d = 1 THEN idx[1] ELSE UAdd(FlatSum(idx, d - 1), UMul(idx[d], cumN[d]))

convertIndex(idx) == FlatSum(idx, DIM)

\* convertIndex(uint idx): flat index to dim index, written to _idx.
\* Defined for 0 <= v < 2^31 and N[d] > 0.
RECURSIVE DivBy(_, _)
DivBy(v, d) == IF d = 0 THEN v ELSE DivBy(v, d - 1) \div N[d]

convertFlat(n) == [d \in Dims |-> DivBy(n, d - 1) % N[d]]

\* All dim indices f with f[d] in S(d) on every axis d.
RECURSIVE Tuples(_, _)
Tuples(S(_), d) ==
    IF d = 0 THEN {<<>>}
    ELSE {Append(f, v) : f \in Tuples(S, d - 1), v \in S(d)}

\* Mutant of NodeIndexBlAxis: clamps to N[d]-1 as getNodeIndex does.
NodeIndexBlAxisUpper(x, d) ==
    {qBound(0, v, N[d] - 1) :
        v \in IntCast(DMul(DSub(x[d], min[d]), strideinv[d]))}

\* What getNodeIndexBl(x) may write to _idx[d] (one value, unless the
\* conversion to int is undefined).
NodeIndexBlAxis(x, d) ==
    {qBound(0, v, N[d] - 2) :
        v \in IntCast(DMul(DSub(x[d], min[d]), strideinv[d]))}

\* getNodeIndexBl(x): the dim indices the call may write to _idx.
NodeIndexBl(x) ==
    LET Axis(d) == NodeIndexBlAxis(x, d)
    IN  Tuples(Axis, DIM)

\* What getNodeIndex(x) may write to _idx[d].
NodeIndexAxis(x, d) ==
    {qBound(0, v, N[d] - 1) :
        v \in qRound(DMul(DSub(x[d], min[d]), strideinv[d]))}

\* getNodeIndex(x): the dim indices the call may write to _idx.
NodeIndex(x) ==
    LET Axis(d) == NodeIndexAxis(x, d)
    IN  Tuples(Axis, DIM)

\* raster[d][i]: a read past the end of the table is undefined.
RasterAt(d, i) ==
    IF i >= 0 /\ i < Len(raster[d]) THEN {raster[d][i + 1]} ELSE GarbageVals

\* getNodeCoordinates(const uint* idx): the points the call may write to _x.
NodeCoordinates(idx) ==
    LET Axis(d) == RasterAt(d, idx[d])
    IN  Tuples(Axis, DIM)

\* containsPoint(x)
containsPoint(x) == ~(\E d \in Dims : DLt(max[d], x[d]) \/ DLt(x[d], min[d]))

\* ---------------------------------------------------------------------------
\* enumerateNeighborHood and getEnvelopingNodes.  The dim index argument is a
\* pointer: either to the caller's own array, or to the scratch buffer _idx
\* (what convertIndex(uint) and getNodeIndexBl return).  The functions read it
\* where the code reads it, so an overwritten scratch buffer shows.
\* ---------------------------------------------------------------------------
Own(v) == [alias |-> FALSE, val |-> v]
Scratch == [alias |-> TRUE]
Deref(ref, buf) == IF ref.alias THEN buf ELSE ref.val

\* The odometer step of the enumeration loops (lines 315-323, 362-370).
RECURSIVE Odometer(_, _, _, _)
Odometer(buf, d, bmin, bmax) ==
    IF d > DIM THEN buf
    ELSE LET inc == [buf EXCEPT ![d] = UAdd(buf[d], 1)]
         IN  IF ULe(inc[d], bmax[d]) THEN inc
             ELSE Odometer([inc EXCEPT ![d] = bmin[d]], d + 1, bmin, bmax)

RECURSIVE ProdBox(_, _, _)
ProdBox(bmin, bmax, d) ==
    IF d = 0 THEN 1
    ELSE UMul(ProdBox(bmin, bmax, d - 1), UAdd(USub(bmax[d], bmin[d]), 1))

\* The enumeration loop: i runs to neighbors, buf is _idx; skip is the set of
\* flat indices left out (the center, or none).
RECURSIVE EnumLoop(_, _, _, _, _, _, _)
EnumLoop(i, neighbors, buf, out, bmin, bmax, skip) ==
    IF ~ULt(i, neighbors) THEN [out |-> out, idx |-> buf]
    ELSE EnumLoop(UAdd(i, 1), neighbors, Odometer(buf, 1, bmin, bmax),
                  out \o SelectSeq(<<convertIndex(buf)>>,
                                   LAMBDA c : c \notin skip),
                  bmin, bmax, skip)

\* The box of enumerateNeighborHood (lines 293-299).
NeighborBMin(idx, radius) ==
    [d \in Dims |-> IF ULt(idx[d], radius) THEN 0 ELSE USub(idx[d], radius)]
NeighborBMax(idx, radius) ==
    [d \in Dims |-> UMin(UAdd(idx[d], radius), USub(N[d], 1))]

\* Mutant of enumerateNeighborHood: bmax is read through idx after _idx was
\* set to bmin.
enumerateNeighborHoodLate(ref, radius, buf) ==
    LET center == convertIndex(Deref(ref, buf))
        bmin == NeighborBMin(Deref(ref, buf), radius)
        bmax == NeighborBMax(Deref(ref, bmin), radius)
        neighbors == ProdBox(bmin, bmax, DIM)
    IN  EnumLoop(0, neighbors, bmin, <<>>, bmin, bmax, {center})

\* enumerateNeighborHood(const uint* idx, uint radius) with _idx = buf on entry:
\* the vector returned and the final _idx.
enumerateNeighborHood(ref, radius, buf) ==
    LET center == convertIndex(Deref(ref, buf))
        bmin == NeighborBMin(Deref(ref, buf), radius)
        bmax == NeighborBMax(Deref(ref, buf), radius)
        neighbors == ProdBox(bmin, bmax, DIM)
    IN  EnumLoop(0, neighbors, bmin, <<>>, bmin, bmax, {center})

\* The box of getEnvelopingNodes (lines 343-347).
EnvelopeBMin(idx, radius) ==
    [d \in Dims |-> UMax(USub(idx[d], radius), 0)]
EnvelopeBMax(idx, radius) ==
    [d \in Dims |-> UMin(UAdd(UAdd(idx[d], radius), 1), USub(N[d], 1))]

\* getEnvelopingNodes(x, radius) from line 339 on: ref is the pointer idx that
\* getNodeIndexBl(x) returned (the code's is Scratch), buf is _idx.
envelopingNodes(ref, radius, buf) ==
    LET bmin == EnvelopeBMin(Deref(ref, buf), radius)
        bmax == EnvelopeBMax(Deref(ref, buf), radius)
        neighbors == ProdBox(bmin, bmax, DIM)
    IN  EnumLoop(0, neighbors, bmin, <<>>, bmin, bmax, {})

\* ---------------------------------------------------------------------------
\* Operations.  An operation is called when no call is outstanding; Return
\* hands its result to the caller.
\* ---------------------------------------------------------------------------
Idle == [op |-> "idle"]
Ok(v) == [status |-> "ok", val |-> v]
Void == [status |-> "ok", val |-> "void"]
NoResult == [status |-> "none"]
NotHeld == [kind |-> "none"]
NoThreads == <<>>

\* A call of an operation: none is outstanding, and the caller has calls left.
Called == call.op = "idle" /\ ops > 0 /\ ops' = ops - 1

\* Grid::Grid().  DIM and the vectors are members declared in Grid.h.
Init ==
    /\ DIM = 0
    /\ N = <<>> /\ min = <<>> /\ max = <<>>
    /\ nodeCount = 0
    /\ cumN = <<>> /\ stride = <<>> /\ strideinv = <<>> /\ raster = <<>>
    /\ _idx = <<>> /\ _x = <<>>
    /\ call = Idle /\ result = NoResult
    /\ fresh = FALSE
    /\ held = NotHeld
    /\ thr = NoThreads
    /\ ops = MaxOps

Return ==
    /\ call.op # "idle"
    /\ call' = Idle
    /\ result' = NoResult
    /\ UNCHANGED <<config, derived, scratch, fresh, held, thr, ops>>

setDim ==
    /\ Called
    /\ \E d \in DimVals :
        /\ DIM' = d
        /\ N' = Resize(N, d, 0)
        /\ max' = Resize(max, d, DZero)
        /\ min' = Resize(min, d, DZero)
        /\ raster' = Resize(raster, d, <<>>)
        /\ cumN' = Resize(cumN, d, 0)
        /\ stride' = Resize(stride, d, DZero)
        /\ strideinv' = Resize(strideinv, d, DZero)
        /\ _idx' = Resize(_idx, d, 0)
        /\ _x' = Resize(_x, d, DZero)
        /\ call' = [op |-> "setDim", d |-> d]
    /\ result' = Void
    /\ fresh' = FALSE
    /\ UNCHANGED <<nodeCount, held, thr>>

\* setMin(double) and setMax(double): the bodies are commented out.
setMinAll ==
    /\ Called
    /\ \E m \in MinVals : call' = [op |-> "setMinAll", v |-> m]
    /\ result' = Void
    /\ fresh' = FALSE
    /\ UNCHANGED <<config, derived, scratch, held, thr>>

setMaxAll ==
    /\ Called
    /\ \E m \in MaxVals : call' = [op |-> "setMaxAll", v |-> m]
    /\ result' = Void
    /\ fresh' = FALSE
    /\ UNCHANGED <<config, derived, scratch, held, thr>>

setMin ==
    /\ Called
    /\ \E minn \in [Dims -> MinVals] :
        /\ min' = [d \in Dims |-> minn[d]]
        /\ call' = [op |-> "setMin", v |-> minn]
    /\ result' = Void
    /\ fresh' = FALSE
    /\ UNCHANGED <<DIM, N, max, derived, scratch, held, thr>>

setMax ==
    /\ Called
    /\ \E maxx \in [Dims -> MaxVals] :
        /\ max' = [d \in Dims |-> maxx[d]]
        /\ call' = [op |-> "setMax", v |-> maxx]
    /\ result' = Void
    /\ fresh' = FALSE
    /\ UNCHANGED <<DIM, N, min, derived, scratch, held, thr>>

\* Mutant of setNStore: setN also refreshes nodeCount.
setNStoreRecount(N_) ==
    /\ N' = [d \in Dims |-> N_[d]]
    /\ nodeCount' = RasterNodeCount(N', DIM)
    /\ UNCHANGED <<DIM, min, max, cumN, stride, strideinv, raster, scratch>>

\* setN(const uint* N_)
setNStore(N_) ==
    /\ N' = [d \in Dims |-> N_[d]]
    /\ UNCHANGED <<DIM, min, max, derived, scratch>>

setN ==
    /\ Called
    /\ \E N_ \in [Dims -> NVals] :
        /\ setNStore(N_)
        /\ call' = [op |-> "setN", v |-> N_]
    /\ result' = Void
    /\ fresh' = FALSE
    /\ UNCHANGED <<held, thr>>

\* setN(uint N_): fills a local array and calls setN(const uint*).
setNAll ==
    /\ Called
    /\ \E N_ \in NVals :
        /\ setNStore([d \in Dims |-> N_])
        /\ call' = [op |-> "setNAll", v |-> N_]
    /\ result' = Void
    /\ fresh' = FALSE
    /\ UNCHANGED <<held, thr>>

\* The queries and rasterize read N[0] and divide by N[d]: they are called on
\* a grid whose dimension and node counts were set.
Usable == DIM >= 1 /\ \A d \in Dims : N[d] >= 1

rasterize ==
    /\ Called
    /\ Usable
    /\ nodeCount' = RasterNodeCount(N, DIM)
    /\ cumN' = RasterCumN(N, DIM)
    /\ stride' = RasterStride(N, min, max, DIM)
    /\ strideinv' = RasterStrideInv(N, min, max, DIM)
    /\ raster' = RasterTable(N, min, max, DIM)
    /\ call' = [op |-> "rasterize"]
    /\ result' = Void
    /\ fresh' = TRUE
    /\ UNCHANGED <<config, scratch, held, thr>>

\* ---------------------------------------------------------------------------
\* Queries.  P is the set of coordinates and R the set of radii the caller
\* draws its arguments from.
\* ---------------------------------------------------------------------------
Points(P) == [Dims -> P]
\* Dim indices of nodes of the grid as configured: idx[d] < N[d].
ValidIdx == {f \in [Dims -> 0 .. MaxN - 1] : \A d \in Dims : f[d] < N[d]}
\* Flat indices below getNodeCount().
FlatVals == {n \in 0 .. MaxN * MaxN : n < nodeCount}

Query == Called /\ Usable

convertIndexDim ==
    /\ Query
    /\ \E idx \in ValidIdx :
        /\ call' = [op |-> "convertIndexDim", idx |-> idx]
        /\ result' = Ok(convertIndex(idx))
    /\ UNCHANGED <<config, derived, scratch, fresh, held, thr>>

convertIndexFlat ==
    /\ Query
    /\ \E n \in FlatVals :
        /\ _idx' = convertFlat(n)
        /\ call' = [op |-> "convertIndexFlat", n |-> n]
        /\ result' = Ok(_idx')
    /\ UNCHANGED <<config, derived, _x, fresh, held, thr>>

getNodeIndexBl(P) ==
    /\ Query
    /\ \E x \in Points(P) : \E f \in NodeIndexBl(x) :
        /\ _idx' = f
        /\ call' = [op |-> "getNodeIndexBl", x |-> x]
        /\ result' = Ok(f)
    /\ UNCHANGED <<config, derived, _x, fresh, held, thr>>

getNodeIndex(P) ==
    /\ Query
    /\ \E x \in Points(P) : \E f \in NodeIndex(x) :
        /\ _idx' = f
        /\ call' = [op |-> "getNodeIndex", x |-> x]
        /\ result' = Ok(f)
    /\ UNCHANGED <<config, derived, _x, fresh, held, thr>>

getNodeFlatIndexBl(P) ==
    /\ Query
    /\ \E x \in Points(P) : \E f \in NodeIndexBl(x) :
        /\ _idx' = f
        /\ call' = [op |-> "getNodeFlatIndexBl", x |-> x]
        /\ result' = Ok(convertIndex(f))
    /\ UNCHANGED <<config, derived, _x, fresh, held, thr>>

getNodeFlatIndex(P) ==
    /\ Query
    /\ \E x \in Points(P) : \E f \in NodeIndex(x) :
        /\ _idx' = f
        /\ call' = [op |-> "getNodeFlatIndex", x |-> x]
        /\ result' = Ok(convertIndex(f))
    /\ UNCHANGED <<config, derived, _x, fresh, held, thr>>

getNodeCoordinatesDim ==
    /\ Query
    /\ \E idx \in ValidIdx : \E p \in NodeCoordinates(idx) :
        /\ _x' = p
        /\ call' = [op |-> "getNodeCoordinatesDim", idx |-> idx]
        /\ result' = Ok(p)
    /\ UNCHANGED <<config, derived, _idx, fresh, held, thr>>

getNodeCoordinatesFlat ==
    /\ Query
    /\ \E n \in FlatVals : \E p \in NodeCoordinates(convertFlat(n)) :
        /\ _idx' = convertFlat(n)
        /\ _x' = p
        /\ call' = [op |-> "getNodeCoordinatesFlat", n |-> n]
        /\ result' = Ok(p)
    /\ UNCHANGED <<config, derived, fresh, held, thr>>

\* enumerateNeighborHood(uint n, uint radius): passes the pointer that
\* convertIndex(n) returns, which is _idx.
enumerateNeighborHoodFlat(R) ==
    /\ Query
    /\ \E n \in FlatVals : \E radius \in R :
        \E e \in {enumerateNeighborHood(Scratch, radius, convertFlat(n))} :
            /\ _idx' = e.idx
            /\ call' = [op |-> "enumerateNeighborHoodFlat", n |-> n,
                        radius |-> radius]
            /\ result' = Ok(e.out)
    /\ UNCHANGED <<config, derived, _x, fresh, held, thr>>

enumerateNeighborHoodDim(R) ==
    /\ Query
    /\ \E idx \in ValidIdx : \E radius \in R :
        \E e \in {enumerateNeighborHood(Own(idx), radius, _idx)} :
            /\ _idx' = e.idx
            /\ call' = [op |-> "enumerateNeighborHoodDim", idx |-> idx,
                        radius |-> radius]
            /\ result' = Ok(e.out)
    /\ UNCHANGED <<config, derived, _x, fresh, held, thr>>

\* getEnvelopingNodes(x, radius); bl is what getNodeIndexBl(x) wrote to _idx.
getEnvelopingNodes(P, R) ==
    /\ Query
    /\ \E x \in Points(P) : \E bl \in NodeIndexBl(x) : \E radius \in R :
        \E e \in {envelopingNodes(Scratch, radius, bl)} :
            /\ _idx' = e.idx
            /\ call' = [op |-> "getEnvelopingNodes", x |-> x, bl |-> bl,
                        radius |-> radius]
            /\ result' = Ok(e.out)
    /\ UNCHANGED <<config, derived, _x, fresh, held, thr>>

containsPointQ(P) ==
    /\ Query
    /\ \E x \in Points(P) :
        /\ call' = [op |-> "containsPoint", x |-> x]
        /\ result' = Ok(containsPoint(x))
    /\ UNCHANGED <<config, derived, scratch, fresh, held, thr>>

\* Statistics::uniformSample(a, b) draws a double between a and b; the
\* ends and the middle stand for the draws.
Draws(a, b) == {a, b, DMul(DAdd(a, b), DHalf)}

Samples ==
    LET Axis(d) == Draws(min[d], max[d])
    IN  Tuples(Axis, DIM)

uniformSample ==
    /\ Query
    /\ \E p \in Samples :
        /\ _x' = p
        /\ call' = [op |-> "uniformSample"]
        /\ result' = Ok(p)
    /\ UNCHANGED <<config, derived, _idx, fresh, held, thr>>

QueryOps == {"convertIndexDim", "convertIndexFlat", "getNodeIndexBl",
             "getNodeIndex", "getNodeFlatIndexBl", "getNodeFlatIndex",
             "getNodeCoordinatesDim", "getNodeCoordinatesFlat",
             "enumerateNeighborHoodFlat", "enumerateNeighborHoodDim",
             "getEnvelopingNodes", "containsPoint", "uniformSample"}
SetterOps == {"setDim", "setMin", "setMax", "setMinAll", "setMaxAll",
              "setN", "setNAll"}

\* ---------------------------------------------------------------------------
\* Spec: a grid from construction on, configured, rasterized and queried in
\* any order.
\* ---------------------------------------------------------------------------
LifePoints == {Dbl(1, 2), Dbl(5, 2)}
LifeRadii == {1}

Next ==
    \/ setDim \/ setMinAll \/ setMaxAll \/ setMin \/ setMax \/ setN \/ setNAll
    \/ rasterize
    \/ convertIndexDim \/ convertIndexFlat
    \/ getNodeIndexBl(LifePoints) \/ getNodeIndex(LifePoints)
    \/ getNodeFlatIndexBl(LifePoints) \/ getNodeFlatIndex(LifePoints)
    \/ getNodeCoordinatesDim \/ getNodeCoordinatesFlat
    \/ enumerateNeighborHoodFlat(LifeRadii) \/ enumerateNeighborHoodDim(LifeRadii)
    \/ getEnvelopingNodes(LifePoints, LifeRadii)
    \/ containsPointQ(LifePoints) \/ uniformSample
    \/ Return

Spec == Init /\ [][Next]_vars

\* ---------------------------------------------------------------------------
\* SpecQ: the index queries on the finalized grids of the input values (the
\* same range on every axis), that is, on the state setDim, setN, setMin,
\* setMax and rasterize leave, with MaxQueries calls to go.
\* ---------------------------------------------------------------------------
Finalized(dims, nvals, mins, maxs) ==
    \E dim \in dims :
      \E n \in [1 .. dim -> nvals] :
        \E lo \in mins :
          \E hi \in maxs :
            LET mn == [d \in 1 .. dim |-> lo]
                mx == [d \in 1 .. dim |-> hi]
            IN
            /\ DIM = dim /\ N = n /\ min = mn /\ max = mx
            /\ nodeCount = RasterNodeCount(n, dim)
            /\ cumN = RasterCumN(n, dim)
            /\ stride = RasterStride(n, mn, mx, dim)
            /\ strideinv = RasterStrideInv(n, mn, mx, dim)
            /\ raster = RasterTable(n, mn, mx, dim)
            /\ _idx = [d \in 1 .. dim |-> 0]
            /\ _x = [d \in 1 .. dim |-> DZero]
            /\ fresh = TRUE

\* A single caller with k calls to go.
OneCaller(k) ==
    /\ call = Idle /\ result = NoResult
    /\ held = NotHeld
    /\ thr = NoThreads
    /\ ops = k

\* Node counts of a grid that rasterize() divides by N[d]-1 > 0 for.
RegularNVals == 2 .. MaxN

InitQ == Finalized(DimVals, RegularNVals, MinVals, MaxVals) /\ OneCaller(MaxQueries)

SmallRadii == 0 .. MaxRadius

NextQ ==
    \/ convertIndexDim \/ convertIndexFlat
    \/ getNodeIndexBl(PointVals) \/ getNodeFlatIndexBl(PointVals)
    \/ enumerateNeighborHoodFlat(RadiusVals)
    \/ enumerateNeighborHoodDim(RadiusVals)
    \/ getEnvelopingNodes(PointVals, SmallRadii)
    \/ Return

SpecQ == InitQ /\ [][NextQ]_vars

\* ---------------------------------------------------------------------------
\* What the specification expects, in unbounded integers
\* ---------------------------------------------------------------------------
\* The flat index of lattice point p: sum of p[d] * N[1] * ... * N[d-1].
RECURSIVE ExpStride(_)
ExpStride(d) == IF d = 1 THEN 1 ELSE ExpStride(d - 1) * N[d - 1]

RECURSIVE ExpFlatUpTo(_, _)
ExpFlatUpTo(p, d) ==
    IF d = 0 THEN 0 ELSE ExpFlatUpTo(p, d - 1) + p[d] * ExpStride(d)

ExpFlat(p) == ExpFlatUpTo(p, DIM)

\* The lattice points of the box lo..hi.
ExpBox(lo, hi) ==
    {p \in [Dims -> 0 .. MaxN - 1] : \A d \in Dims : lo[d] <= p[d] /\ p[d] <= hi[d]}

\* A set of integers in ascending order: dimension 0 varies fastest.
RECURSIVE Ascending(_)
Ascending(S) ==
    IF S = {} THEN <<>>
    ELSE LET m == CHOOSE m \in S : \A y \in S : m <= y
         IN  <<m>> \o Ascending(S \ {m})

\* A radius r >= 2^31 (negative in the uint representation) exceeds every axis.
ExpLo(c, r, extra) ==
    [d \in Dims |-> IF r < 0 \/ r > c[d] THEN 0 ELSE c[d] - r]
ExpHi(c, r, extra) ==
    [d \in Dims |->
        IF r < 0 \/ c[d] + r + extra > N[d] - 1 THEN N[d] - 1 ELSE c[d] + r + extra]

ExpNeighborhood(c, r) ==
    Ascending({ExpFlat(p) : p \in ExpBox(ExpLo(c, r, 0), ExpHi(c, r, 0))}
              \ {ExpFlat(c)})

ExpEnveloping(bl, r) ==
    {ExpFlat(p) : p \in ExpBox(ExpLo(bl, r, 1), ExpHi(bl, r, 1))}

Range(q) == {q[i] : i \in 1 .. Len(q)}
NoDuplicates(q) == \A i, j \in 1 .. Len(q) : q[i] = q[j] => i = j

Clamp(v, lo, hi) == IF v < lo THEN lo ELSE IF v > hi THEN hi ELSE v

\* ---------------------------------------------------------------------------
\* Claims checked under SpecQ
\* ---------------------------------------------------------------------------
\* C1: on a finalized grid with every N[d] >= 2, converting a flat index below
\* nodeCount to a dim index and back gives the flat index again.
RoundTrip ==
    (call.op = "convertIndexFlat" /\ \A d \in Dims : N[d] >= 2)
        => convertIndex(result.val) = call.n

RoundTripWitness ==
    /\ call.op = "convertIndexFlat"
    /\ DIM = 2 /\ N[1] # N[2]
    /\ call.n = nodeCount - 1
    /\ convertIndex(result.val) = call.n

\* C2: enumerateNeighborHood returns the flat indices of the box
\* max(0, c-r) .. min(N-1, c+r) around the center c, each once, dimension 0
\* fastest, without the center, for every uint radius.
NeighborhoodIsClippedBox ==
    /\ call.op = "enumerateNeighborHoodDim"
        => result.val = ExpNeighborhood(call.idx, call.radius)
    /\ call.op = "enumerateNeighborHoodFlat"
        => result.val = ExpNeighborhood(convertFlat(call.n), call.radius)

\* The same for the radii whose sum with the center does not wrap around.
NeighborhoodOfSmallRadius ==
    /\ (call.op = "enumerateNeighborHoodDim" /\ call.radius >= 0)
        => result.val = ExpNeighborhood(call.idx, call.radius)
    /\ (call.op = "enumerateNeighborHoodFlat" /\ call.radius >= 0)
        => result.val = ExpNeighborhood(convertFlat(call.n), call.radius)

\* C3: getEnvelopingNodes returns the flat indices of the box
\* max(0, bl-r) .. min(N-1, bl+r+1) around the bottom left node bl of x, each
\* once and none left out, also when r > bl[d].
EnvelopingIsClippedBox ==
    call.op = "getEnvelopingNodes"
        => /\ NoDuplicates(result.val)
           /\ Range(result.val) = ExpEnveloping(call.bl, call.radius)

\* The same for the radii that do not reach below index 0.
EnvelopingWithinGrid ==
    (call.op = "getEnvelopingNodes" /\ \A d \in Dims : call.radius <= call.bl[d])
        => /\ NoDuplicates(result.val)
           /\ Range(result.val) = ExpEnveloping(call.bl, call.radius)

ScratchReadBeforeOverwrite ==
    /\ call.op = "enumerateNeighborHoodFlat"
        => result.val =
             enumerateNeighborHood(Own(convertFlat(call.n)), call.radius,
                                   convertFlat(call.n)).out
    /\ call.op = "getEnvelopingNodes"
        => result.val = envelopingNodes(Own(call.bl), call.radius, call.bl).out

ScratchOverwrittenWitness ==
    /\ call.op = "enumerateNeighborHoodFlat"
    /\ call.radius = 1
    /\ Len(result.val) = 8
    /\ _idx # convertFlat(call.n)

\* ---------------------------------------------------------------------------
\* Claims checked under Spec
\* ---------------------------------------------------------------------------
\* C7: rasterize fails with DegenerateAxis when some axis has N[d] < 2 or
\* max[d] < min[d], and then divides by no N[d]-1 = 0.
FinalizeRejectsDegenerateAxis ==
    (call.op = "rasterize"
     /\ \E d \in Dims : N[d] < 2 \/ DLt(max[d], min[d]))
        => /\ result.status = "DegenerateAxis"
           /\ \A d \in Dims : DFinite(stride[d])

\* C8: a query called before the first rasterize, or after a setter with no
\* rasterize since, fails with UnfinalizedGrid.
QueryNeedsFinalize ==
    (call.op \in QueryOps /\ ~fresh) => result.status = "UnfinalizedGrid"

\* C9, as claimed: no setter changes a derived field of a finalized grid.
SettersKeepDerived ==
    [][(fresh /\ call'.op \in SetterOps) => derived' = derived]_vars

\* C9, amended: setN, setMin and setMax (either form) change no derived field;
\* setDim(d) keeps nodeCount and the first entries of cumN, stride, strideinv
\* and raster, and resizes these four to d entries; no other operation but
\* rasterize changes a derived field.
Prefix(v, w) == \A i \in 1 .. Len(w) : i <= Len(v) => w[i] = v[i]

SettersOnlyResizeDerived ==
    [][/\ call'.op \in SetterOps \ {"setDim"} => derived' = derived
       /\ call'.op = "setDim"
            => /\ nodeCount' = nodeCount
               /\ Len(cumN') = call'.d /\ Prefix(cumN, cumN')
               /\ Len(stride') = call'.d /\ Prefix(stride, stride')
               /\ Len(strideinv') = call'.d /\ Prefix(strideinv, strideinv')
               /\ Len(raster') = call'.d /\ Prefix(raster, raster')
       /\ derived' # derived => call'.op \in {"setDim", "rasterize"}]_vars

SetterOnFinalizedWitness ==
    /\ call.op = "setN"
    /\ DIM = 2
    /\ Len(raster[1]) > 0 /\ Len(raster[2]) > 0
    /\ nodeCount # RasterNodeCount(N, DIM)

\* ---------------------------------------------------------------------------
\* SpecHold: a caller keeps the result of a query on a finalized grid while
\* further queries run.  A pointer result (to _idx or to _x) is read through
\* the pointer; a QVector result is the caller's own copy.
\* ---------------------------------------------------------------------------
IdxPointerOps == {"convertIndexFlat", "getNodeIndexBl", "getNodeIndex"}
XPointerOps == {"getNodeCoordinatesDim", "getNodeCoordinatesFlat", "uniformSample"}

Retain ==
    /\ held = NotHeld
    /\ call.op \in IdxPointerOps \cup XPointerOps
    /\ held' = [kind |-> IF call.op \in IdxPointerOps THEN "idx" ELSE "x",
                val |-> result.val]
    /\ UNCHANGED <<config, derived, scratch, call, result, fresh, thr, ops>>

\* What the caller reads through the pointer it holds.
HeldView == IF held.kind = "idx" THEN _idx ELSE _x

InitHold == Finalized(DimVals, {MaxN}, {DZero}, {DInt(2)}) /\ OneCaller(MaxQueries + 1)

NextHold ==
    \/ convertIndexDim \/ convertIndexFlat
    \/ getNodeIndexBl(LifePoints) \/ getNodeIndex(LifePoints)
    \/ getNodeFlatIndexBl(LifePoints) \/ getNodeFlatIndex(LifePoints)
    \/ getNodeCoordinatesDim \/ getNodeCoordinatesFlat
    \/ enumerateNeighborHoodFlat(LifeRadii) \/ enumerateNeighborHoodDim(LifeRadii)
    \/ getEnvelopingNodes(LifePoints, LifeRadii)
    \/ containsPointQ(LifePoints) \/ uniformSample
    \/ Retain
    \/ Return

SpecHold == InitHold /\ [][NextHold]_vars

\* C5: the result a caller holds still equals the value that was returned,
\* whatever queries ran since.
ResultsSafeToRetain == held # NotHeld => HeldView = held.val

\* ---------------------------------------------------------------------------
\* SpecConc: two threads query one finalized grid.  Each runs one call of
\* getNodeFlatIndex, getNodeFlatIndexBl or getNodeCoordinates(uint), one
\* statement at a time; the statements of the two interleave freely.
\* ---------------------------------------------------------------------------
Threads == {1, 2}
ConcPoints == {Dbl(1, 2), Dbl(5, 2)}
ThreadIdle == [pc |-> "idle"]
FlatIndexOps == {"getNodeFlatIndex", "getNodeFlatIndexBl"}

InitConc ==
    /\ Finalized(DimVals, {MaxN}, {DZero}, {DInt(2)})
    /\ call = Idle /\ result = NoResult
    /\ held = NotHeld
    /\ thr = [t \in Threads |-> ThreadIdle]
    /\ ops = 0

ThreadFrame == UNCHANGED <<config, derived, call, result, fresh, held, ops>>

\* Thread t calls a query.
Begin(t) ==
    /\ thr[t].pc = "idle"
    /\ \/ \E op \in FlatIndexOps : \E x \in Points(ConcPoints) :
            thr' = [thr EXCEPT ![t] = [pc |-> "idx", op |-> op, x |-> x, d |-> 1,
                                       res |-> "none"]]
       \/ \E n \in {0, nodeCount - 1} :
            thr' = [thr EXCEPT ![t] = [pc |-> "idx", op |-> "getNodeCoordinatesFlat",
                                       n |-> n, v |-> n, d |-> 1,
                                       res |-> "none"]]
    /\ UNCHANGED scratch
    /\ ThreadFrame

\* One pass of the loop that writes _idx[d]: lines 244-245, 235-236, 205-209.
WriteIdx(t) ==
    /\ thr[t].pc = "idx"
    /\ LET me == thr[t]
           d == me.d
           last == d = DIM
       IN  \/ /\ me.op = "getNodeFlatIndex"
              /\ \E v \in NodeIndexAxis(me.x, d) : _idx' = [_idx EXCEPT ![d] = v]
              /\ thr' = [thr EXCEPT ![t].d = d + 1,
                                    ![t].pc = IF last THEN "ret" ELSE "idx"]
           \/ /\ me.op = "getNodeFlatIndexBl"
              /\ \E v \in NodeIndexBlAxis(me.x, d) : _idx' = [_idx EXCEPT ![d] = v]
              /\ thr' = [thr EXCEPT ![t].d = d + 1,
                                    ![t].pc = IF last THEN "ret" ELSE "idx"]
           \/ /\ me.op = "getNodeCoordinatesFlat"
              /\ _idx' = [_idx EXCEPT ![d] = me.v % N[d]]
              /\ thr' = [thr EXCEPT ![t].v = me.v \div N[d],
                                    ![t].d = IF last THEN 1 ELSE d + 1,
                                    ![t].pc = IF last THEN "x" ELSE "idx"]
    /\ UNCHANGED _x
    /\ ThreadFrame

\* return convertIndex(_idx.data()): lines 246, 237.
ReadIdx(t) ==
    /\ thr[t].pc = "ret"
    /\ thr' = [thr EXCEPT ![t].pc = "done", ![t].res = convertIndex(_idx)]
    /\ UNCHANGED scratch
    /\ ThreadFrame

\* One pass of the loop _x[d] = raster[d][idx[d]] (lines 263-264), and after
\* the last the caller reads the point through the pointer returned.
WriteX(t) ==
    /\ thr[t].pc = "x"
    /\ LET d == thr[t].d
           last == d = DIM
       IN  \E c \in RasterAt(d, _idx[d]) :
            /\ _x' = [_x EXCEPT ![d] = c]
            /\ thr' = [thr EXCEPT ![t].d = d + 1,
                                  ![t].pc = IF last THEN "done" ELSE "x",
                                  ![t].res = IF last THEN _x' ELSE @]
    /\ UNCHANGED _idx
    /\ ThreadFrame

NextConc == \E t \in Threads : Begin(t) \/ WriteIdx(t) \/ ReadIdx(t) \/ WriteX(t)

SpecConc == InitConc /\ [][NextConc]_vars

\* What the call of thread t returns when it runs alone.
Alone(t) ==
    LET me == thr[t]
    IN  IF me.op = "getNodeFlatIndex"
          THEN {convertIndex(f) : f \in NodeIndex(me.x)}
        ELSE IF me.op = "getNodeFlatIndexBl"
          THEN {convertIndex(f) : f \in NodeIndexBl(me.x)}
        ELSE NodeCoordinates(convertFlat(me.n))

\* C6: under every interleaving each call returns what it returns alone.
ConcurrentQueriesAgree ==
    \A t \in Threads : thr[t].pc = "done" => thr[t].res \in Alone(t)

====
